---- MODULE Spec2Model ----
(***************************************************************************)
(* A model of youwee's deep-link parser (src/lib/external-link.ts) and     *)
(* retry policy engine (src/lib/download-retry.ts).                        *)
(*                                                                         *)
(* JavaScript strings are modelled by TLA+ strings, taken apart with Len,  *)
(* SubSeq and \o; every string function of the source (trim, toLowerCase,  *)
(* startsWith, the regular expressions, the URL parser) is computed        *)
(* character by character as the platform computes it.                     *)
(***************************************************************************)
EXTENDS Integers, Sequences, FiniteSets, TLC

VARIABLES
    \* waitWithCancellation, one record per concurrent call
    pc,             \* "idle" | "sleeping" | "done"
    ms,             \* the ms argument of the call
    remaining,      \* the loop counter
    cancelled,      \* what the call's isCancelled() returns
    ticks,          \* the values handed to onTick, in order
    sleeps,         \* completed one-second sleeps
    polls,          \* isCancelled() calls made
    result,         \* the resolved value of the promise (when pc = "done")
    ticksAtCancel,  \* history: onTick calls begun when cancellation was requested, -1 before
    sleepsAtCancel  \* history: sleeps completed when cancellation was requested, -1 before

waitVars == <<pc, ms, remaining, cancelled, ticks, sleeps, polls, result,
              ticksAtCancel, sleepsAtCancel>>

\* isPrivateOrLocalHost(hostname)
VARIABLES
    hostname,       \* the argument, composed chunk by chunk
    hostTyped,      \* chunks appended to hostname
    hostCalled,     \* whether isPrivateOrLocalHost(hostname) has been evaluated
    hostResult      \* its return value (when hostCalled)

hostVars == <<hostname, hostTyped, hostCalled, hostResult>>

\* isRetryableError(message), isNonRetryableError(message)
VARIABLES
    message,        \* the error message, composed chunk by chunk
    msgTyped,       \* chunks appended to message
    retryCalled,    \* whether the two classifiers have been evaluated
    retryable,      \* isRetryableError(message) (when retryCalled)
    nonRetryable    \* isNonRetryableError(message) (when retryCalled)

retryVars == <<message, msgTyped, retryCalled, retryable, nonRetryable>>

\* clampAutoRetryMaxAttempts(value), clampAutoRetryDelaySeconds(value)
VARIABLES
    value,          \* the configured number handed to both clamps
    clampCalled,    \* whether the clamps have been evaluated
    attempts,       \* clampAutoRetryMaxAttempts(value) (when clampCalled)
    delay           \* clampAutoRetryDelaySeconds(value) (when clampCalled)

clampVars == <<value, clampCalled, attempts, delay>>

\* parseExternalDeepLink(raw)
VARIABLES
    raw,            \* the deep link, composed chunk by chunk
    linkTyped,      \* chunks appended to raw
    linkCalled,     \* whether parseExternalDeepLink(raw) has been evaluated
    request         \* its return value (when linkCalled)

linkVars == <<raw, linkTyped, linkCalled, request>>

\* resolveExternalRouteTarget(preferredTarget, url)
VARIABLES
    preferredTarget,    \* the first argument
    url,                \* the second argument, composed chunk by chunk
    urlTyped,           \* chunks appended to url
    routeCalled,        \* whether the route has been resolved
    route               \* the return value (when routeCalled)

routeVars == <<preferredTarget, url, urlTyped, routeCalled, route>>

\* normalizeExternalVideoUrl(videoUrl), and the same of its result
VARIABLES
    videoUrl,           \* the argument, composed chunk by chunk
    videoTyped,         \* chunks appended to videoUrl
    normCalls,          \* calls made: 0, 1 (of videoUrl) or 2 (of the first result)
    normalizedOnce,     \* normalizeExternalVideoUrl(videoUrl) (when normCalls >= 1)
    normalizedTwice     \* normalizeExternalVideoUrl(normalizedOnce) (when normCalls = 2)

normVars == <<videoUrl, videoTyped, normCalls, normalizedOnce, normalizedTwice>>

\* normalizeErrorMessage(error)
VARIABLES
    error,          \* the argument: any JavaScript value
    errorCalled,    \* whether normalizeErrorMessage(error) has been evaluated
    outcome         \* how the call ended (when errorCalled): returned or thrown

errorVars == <<error, errorCalled, outcome>>

vars == <<waitVars, hostVars, retryVars, clampVars, linkVars, routeVars, normVars, errorVars>>

-----------------------------------------------------------------------------
(* Bounds *)

NumWaits == 2
MaxSeconds == 3
MaxHostChunks == 2
MaxMsgChunks == 2
ClampMargin == 3
MaxLinkChunks == 3
MaxUrlChunks == 2
MaxVideoChunks == 2

Waits == 1..NumWaits

-----------------------------------------------------------------------------
(* download-retry.ts: waitWithCancellation *)

TICK_MS == 1000

\* Math.ceil(a / b) for integers a and b > 0
CeilDiv(a, b) == (a + b - 1) \div b

Max(a, b) == IF a >= b THEN a ELSE b

\* the duration with a minimum of one second
totalSecondsAtLeastOne(m) == Max(1, CeilDiv(m, TICK_MS))

\* the duration rounded down to whole seconds
totalSecondsFloor(m) == Max(0, m \div TICK_MS)

\* const totalSeconds = Math.max(0, Math.ceil(ms / 1000));
totalSeconds(m) == Max(0, CeilDiv(m, TICK_MS))

\* The durations a caller passes: negative, zero, and around each whole second.
MsValues ==
    {-1500, -1, 0} \cup
    {m \in 1..(MaxSeconds * TICK_MS) :
        \E k \in 0..MaxSeconds : m \in {k * TICK_MS, k * TICK_MS + 1}}

\* Sleeps started so far by call w: the completed ones and the one in progress.
sleepsStarted(w) == sleeps[w] + (IF pc[w] = "sleeping" THEN 1 ELSE 0)

\* a loop that never polls
PollInLoopSkipped(w) == FALSE

\* line 87: isCancelled() in the loop, before the second's tick and sleep
PollInLoop(w) == cancelled[w]

\* a return that does not poll
PollAtReturnSkipped(w) == TRUE

\* line 92: !isCancelled() after the loop
PollAtReturn(w) == ~cancelled[w]

\* The synchronous run of the loop from its condition `remaining > 0`, with the
\* counter at rem, up to the next await or the return.  The tick observer is the
\* caller's code: it may itself request cancellation (byTick).
RunLoop(w, rem, byTick) ==
    IF rem > 0
    THEN IF PollInLoop(w)
         THEN \* if (isCancelled()) return false;
              /\ pc' = [pc EXCEPT ![w] = "done"]
              /\ result' = [result EXCEPT ![w] = FALSE]
              /\ polls' = [polls EXCEPT ![w] = @ + 1]
              /\ remaining' = [remaining EXCEPT ![w] = rem]
              /\ UNCHANGED <<cancelled, ticks, ticksAtCancel, sleepsAtCancel>>
         ELSE \* onTick?.(remaining); await new Promise(... setTimeout(resolve, 1000))
              /\ pc' = [pc EXCEPT ![w] = "sleeping"]
              /\ polls' = [polls EXCEPT ![w] = @ + 1]
              /\ remaining' = [remaining EXCEPT ![w] = rem]
              /\ ticks' = [ticks EXCEPT ![w] = Append(@, rem)]
              /\ IF byTick /\ ~cancelled[w]
                 THEN /\ cancelled' = [cancelled EXCEPT ![w] = TRUE]
                      /\ ticksAtCancel' = [ticksAtCancel EXCEPT ![w] = Len(ticks[w]) + 1]
                      /\ sleepsAtCancel' = [sleepsAtCancel EXCEPT ![w] = sleeps'[w]]
                 ELSE UNCHANGED <<cancelled, ticksAtCancel, sleepsAtCancel>>
              /\ UNCHANGED result
    ELSE \* return !isCancelled();
         /\ pc' = [pc EXCEPT ![w] = "done"]
         /\ result' = [result EXCEPT ![w] = PollAtReturn(w)]
         /\ polls' = [polls EXCEPT ![w] = @ + 1]
         /\ remaining' = [remaining EXCEPT ![w] = rem]
         /\ UNCHANGED <<cancelled, ticks, ticksAtCancel, sleepsAtCancel>>

\* waitWithCancellation(m, isCancelled, onTick) is called: the body runs
\* synchronously up to its first await.
Call(w) ==
    /\ pc[w] = "idle"
    /\ UNCHANGED sleeps
    /\ \E m \in MsValues, byTick \in BOOLEAN :
          /\ ms' = [ms EXCEPT ![w] = m]
          /\ RunLoop(w, totalSeconds(m), byTick)
    /\ UNCHANGED <<hostVars, retryVars, clampVars, linkVars, routeVars, normVars, errorVars>>

\* the timer firing with the loop counter kept in one place for all calls
WakeSharedCounter(w) ==
    /\ pc[w] = "sleeping"
    /\ sleeps' = [sleeps EXCEPT ![w] = @ + 1]
    /\ \E byTick \in BOOLEAN : RunLoop(w, remaining[1] - 1, byTick)
    /\ UNCHANGED ms
    /\ UNCHANGED <<hostVars, retryVars, clampVars, linkVars, routeVars, normVars, errorVars>>

\* The one-second timer fires: remaining--, then the loop runs on.
Wake(w) ==
    /\ pc[w] = "sleeping"
    /\ sleeps' = [sleeps EXCEPT ![w] = @ + 1]
    /\ \E byTick \in BOOLEAN : RunLoop(w, remaining[w] - 1, byTick)
    /\ UNCHANGED ms
    /\ UNCHANGED <<hostVars, retryVars, clampVars, linkVars, routeVars, normVars, errorVars>>

\* Another task sets the flag isCancelled() reads, before the call or while the
\* wait is suspended in its sleep.  Once set, the flag stays set.
Cancel(w) ==
    /\ pc[w] # "done"
    /\ ~cancelled[w]
    /\ cancelled' = [cancelled EXCEPT ![w] = TRUE]
    /\ ticksAtCancel' = [ticksAtCancel EXCEPT ![w] = Len(ticks[w])]
    /\ sleepsAtCancel' = [sleepsAtCancel EXCEPT ![w] = sleeps[w]]
    /\ UNCHANGED <<pc, ms, remaining, ticks, sleeps, polls, result>>
    /\ UNCHANGED <<hostVars, retryVars, clampVars, linkVars, routeVars, normVars, errorVars>>

(* Properties of waitWithCancellation *)

\* the number of whole seconds a wait of m milliseconds takes
SecondsOf(m) == IF m <= 0 THEN 0 ELSE ((m - 1) \div 1000) + 1

\* C4: a wait returns false if cancellation was requested before it returned,
\* and returns true only after all its one-second sleeps, with cancellation
\* not requested at the final poll.
C4_FalseIffCancelled ==
    \A w \in Waits :
        pc[w] = "done" =>
            /\ cancelled[w] => result[w] = FALSE
            /\ result[w] = TRUE => (sleeps[w] = SecondsOf(ms[w]) /\ ~cancelled[w])

\* a wait cancelled during its last sleep has returned false
C4_Witness ==
    \E w \in Waits :
        /\ pc[w] = "done" /\ ms[w] = 2000 /\ sleeps[w] = 2
        /\ ticksAtCancel[w] = 2 /\ result[w] = FALSE

\* C5: once cancellation is requested in second N, no sleep is started for
\* second N + 1, at most one more tick is observed and at most one sleep (the
\* one in progress) completes, and the wait returns false; a 3000ms wait
\* cancelled after its first tick returns false with at most two ticks.
C5_NoSleepAfterCancel ==
    \A w \in Waits :
        ticksAtCancel[w] >= 0 =>
            /\ sleepsStarted(w) <= ticksAtCancel[w]
            /\ Len(ticks[w]) <= ticksAtCancel[w] + 1
            /\ sleeps[w] <= sleepsAtCancel[w] + 1
            /\ pc[w] = "done" => result[w] = FALSE
            /\ (pc[w] = "done" /\ ms[w] = 3000 /\ ticksAtCancel[w] = 1)
                  => (result[w] = FALSE /\ Len(ticks[w]) <= 2)

\* a 3000ms wait cancelled during its first sleep has returned false
C5_Witness ==
    \E w \in Waits :
        /\ pc[w] = "done" /\ ms[w] = 3000 /\ ticksAtCancel[w] = 1
        /\ sleepsAtCancel[w] = 0 /\ sleeps[w] = 1 /\ result[w] = FALSE

\* the first n values of the countdown total, total - 1, ..., 1
Countdown(total, n) == [i \in 1..n |-> total - i + 1]

\* what an uncancelled wait w has done so far
UncancelledRun(w) ==
    LET total == SecondsOf(ms[w])
    IN  /\ ticks[w] = Countdown(total, Len(ticks[w]))
        /\ \A i \in 1..Len(ticks[w]) : ticks[w][i] > 0
        /\ Len(ticks[w]) <= total
        /\ sleepsStarted(w) = Len(ticks[w])
        /\ polls[w] = Len(ticks[w]) + (IF pc[w] = "done" THEN 1 ELSE 0)
        /\ pc[w] = "done" =>
              /\ result[w] = TRUE
              /\ sleeps[w] = total
              /\ ticks[w] = Countdown(total, total)
        /\ (pc[w] = "done" /\ ms[w] = 1) => (sleeps[w] = 1 /\ ticks[w] = <<1>>)
        /\ pc[w] = "sleeping" =>
              /\ sleeps[w] < total
              /\ remaining[w] = total - sleeps[w]
              /\ ENABLED Wake(w)

\* C19: a wait that is not cancelled has, at every moment, observed the ticks
\* total, total - 1, ... down to the second it is in, one tick per sleep
\* started and one false poll per tick, never a tick of 0; while it sleeps
\* fewer than ceil(ms / 1000) sleeps are complete, its timer is pending and
\* the seconds left are the total less the sleeps complete, so that it ends
\* with the sleep number ceil(ms / 1000); it then has returned true after
\* exactly that many sleeps (one for 1ms) and the full countdown.
C19_TickSequence == \A w \in Waits : ~cancelled[w] => UncancelledRun(w)

\* a wait of 2001ms that was not cancelled has returned true after three
\* sleeps and the ticks 3, 2, 1
C19_Witness ==
    \E w \in Waits :
        /\ pc[w] = "done" /\ ms[w] = 2001 /\ ~cancelled[w]
        /\ sleeps[w] = 3 /\ ticks[w] = <<3, 2, 1>> /\ polls[w] = 4 /\ result[w] = TRUE

\* the part of the state that belongs to wait w
Own(w) ==
    <<pc[w], ms[w], remaining[w], cancelled[w], ticks[w], sleeps[w], polls[w], result[w]>>

\* the outcome of a returned wait w is the one of a wait that runs alone with
\* the same duration and the same moment of cancellation
AsIfAlone(w) ==
    LET total == SecondsOf(ms[w])
        seconds == IF ticksAtCancel[w] = -1 THEN total ELSE ticksAtCancel[w]
    IN  /\ result[w] = (ticksAtCancel[w] = -1)
        /\ ticks[w] = Countdown(total, seconds)
        /\ sleeps[w] = seconds

\* C20: every step changes the state of one wait only, so cancelling a wait
\* or waking it changes nothing of another; and the ticks, the sleeps and the
\* return value of every returned wait are those its own duration and its
\* own cancellation determine, whatever the other waits did meanwhile.
C20_NoInterference ==
    /\ [][\A w, v \in Waits : (w # v /\ Own(w)' # Own(w)) => Own(v)' = Own(v)]_vars
    /\ [](\A w \in Waits : pc[w] = "done" => AsIfAlone(w))

\* one wait was cancelled and returned false, another ran to its end
C20_Witness ==
    \E w, v \in Waits :
        /\ w # v
        /\ pc[w] = "done" /\ cancelled[w] /\ result[w] = FALSE /\ ms[w] = 3000
        /\ Len(ticks[w]) = 1
        /\ pc[v] = "done" /\ ~cancelled[v] /\ result[v] = TRUE /\ ms[v] = 2000
        /\ ticks[v] = <<2, 1>> /\ sleeps[v] = 2

\* wait w has returned at its first poll, without a tick and without a sleep
ReturnedAtFirstPoll(w) ==
    polls[w] = 1 /\ sleeps[w] = 0 /\ ticks[w] = <<>>

\* C21: a wait of ms <= 0 returns at its first and only poll, without a tick
\* and without a sleep, true exactly when cancellation is not requested then;
\* a wait of ms > 0 whose cancellation was requested before the call returns
\* false at its first poll, without a tick and without a sleep; and no wait
\* polls more than ceil(ms / 1000) + 1 times.
C21_EdgeCasesAndPolls ==
    \A w \in Waits :
        /\ polls[w] <= SecondsOf(ms[w]) + 1
        /\ pc[w] = "idle" => polls[w] = 0
        /\ (pc[w] = "done" /\ ms[w] <= 0) =>
              (ReturnedAtFirstPoll(w) /\ result[w] = ~cancelled[w])
        /\ (pc[w] # "idle" /\ ms[w] > 0 /\ ticksAtCancel[w] = 0) =>
              (pc[w] = "done" /\ ReturnedAtFirstPoll(w) /\ result[w] = FALSE)

\* a wait of -1ms has returned true at its only poll, and a wait of 3000ms
\* cancelled before its call has returned false at its first
C21_Witness ==
    \E w, v \in Waits :
        /\ pc[w] = "done" /\ ms[w] = -1 /\ ~cancelled[w]
        /\ polls[w] = 1 /\ sleeps[w] = 0 /\ ticks[w] = <<>> /\ result[w] = TRUE
        /\ pc[v] = "done" /\ ms[v] = 3000 /\ ticksAtCancel[v] = 0
        /\ polls[v] = 1 /\ sleeps[v] = 0 /\ ticks[v] = <<>> /\ result[v] = FALSE

-----------------------------------------------------------------------------
(* JavaScript string primitives *)

\* s.charAt(i - 1): the empty string outside s
At(s, i) == IF 1 <= i /\ i <= Len(s) THEN SubSeq(s, i, i) ELSE ""

\* s.slice(0, i - 1) and s.slice(i - 1), for 1 <= i <= Len(s) + 1
Before(s, i) == SubSeq(s, 1, i - 1)
From(s, i) == SubSeq(s, i, Len(s))

\* s.startsWith(p), s.endsWith(p), s.includes(p)
StartsWith(s, p) == Len(s) >= Len(p) /\ SubSeq(s, 1, Len(p)) = p
EndsWith(s, p) == Len(s) >= Len(p) /\ SubSeq(s, Len(s) - Len(p) + 1, Len(s)) = p
Includes(s, p) == \E i \in 1..(Len(s) - Len(p) + 1) : SubSeq(s, i, i + Len(p) - 1) = p

SetMin(S) == CHOOSE x \in S : \A y \in S : x <= y

\* s.indexOf(p) + 1: the first position of p in s, 0 when there is none
IndexOf(s, p) ==
    LET n == Len(s) - Len(p) + 1
        Here(i) == SubSeq(s, i, i + Len(p) - 1) = p
    IN  IF \E i \in 1..n : Here(i)
        THEN CHOOSE i \in 1..n : Here(i) /\ \A j \in 1..(i - 1) : ~Here(j)
        ELSE 0

\* s.lastIndexOf(p) + 1
LastIndexOf(s, p) ==
    LET n == Len(s) - Len(p) + 1
        Here(i) == SubSeq(s, i, i + Len(p) - 1) = p
    IN  IF \E i \in 1..n : Here(i)
        THEN CHOOSE i \in 1..n : Here(i) /\ \A j \in (i + 1)..n : ~Here(j)
        ELSE 0

\* the first position of a character of the set C in s, 0 when there is none
IndexOfAny(s, C) ==
    IF \E i \in 1..Len(s) : At(s, i) \in C
    THEN CHOOSE i \in 1..Len(s) : At(s, i) \in C /\ \A j \in 1..(i - 1) : At(s, j) \notin C
    ELSE 0

\* the first and the last position of a character outside the set C, 0 when
\* there is none
IndexOfNone(s, C) ==
    IF \E i \in 1..Len(s) : At(s, i) \notin C
    THEN CHOOSE i \in 1..Len(s) : At(s, i) \notin C /\ \A j \in 1..(i - 1) : At(s, j) \in C
    ELSE 0

LastIndexOfNone(s, C) ==
    IF \E i \in 1..Len(s) : At(s, i) \notin C
    THEN CHOOSE i \in 1..Len(s) :
            At(s, i) \notin C /\ \A j \in (i + 1)..Len(s) : At(s, j) \in C
    ELSE 0

UpperAlpha == "ABCDEFGHIJKLMNOPQRSTUVWXYZ"
LowerAlpha == "abcdefghijklmnopqrstuvwxyz"
DigitChars == {"0", "1", "2", "3", "4", "5", "6", "7", "8", "9"}
AlphaChars == {At(UpperAlpha, i) : i \in 1..26} \cup {At(LowerAlpha, i) : i \in 1..26}

LowerChar(c) ==
    LET i == IndexOf(UpperAlpha, c) IN IF i = 0 THEN c ELSE At(LowerAlpha, i)

\* s.toLowerCase()
RECURSIVE ToLowerCase(_)
ToLowerCase(s) ==
    IF Len(s) = 0 THEN s
    ELSE IF Len(s) = 1 THEN LowerChar(s)
    ELSE LET h == Len(s) \div 2
         IN  ToLowerCase(SubSeq(s, 1, h)) \o ToLowerCase(SubSeq(s, h + 1, Len(s)))

\* the white space String.prototype.trim removes (the part that is typed here)
WhiteSpace == {" ", "\t", "\n", "\r"}

\* s.trim()
Trim(s) ==
    LET first == IndexOfNone(s, WhiteSpace)
    IN  IF first = 0 THEN "" ELSE SubSeq(s, first, LastIndexOfNone(s, WhiteSpace))

-----------------------------------------------------------------------------
(* external-link.ts: isPrivateOrLocalHost *)

\* hostname.toLowerCase().replace(/^\[/, '').replace(/\]$/, '')
StripBrackets(lower) ==
    SubSeq(lower, IF StartsWith(lower, "[") THEN 2 ELSE 1,
           IF EndsWith(lower, "]") THEN Len(lower) - 1 ELSE Len(lower))

\* the pattern with its last alternative written 3[0-2]
Matches172Wide(host) ==
    /\ StartsWith(host, "172.")
    /\ Len(host) >= 7
    /\ \/ At(host, 5) = "1" /\ At(host, 6) \in {"6", "7", "8", "9"}
       \/ At(host, 5) = "2" /\ At(host, 6) \in DigitChars
       \/ At(host, 5) = "3" /\ At(host, 6) \in {"0", "1", "2"}
    /\ At(host, 7) = "."

\* /^172\.(1[6-9]|2\d|3[0-1])\./.test(host)
Matches172(host) ==
    /\ StartsWith(host, "172.")
    /\ Len(host) >= 7
    /\ \/ At(host, 5) = "1" /\ At(host, 6) \in {"6", "7", "8", "9"}
       \/ At(host, 5) = "2" /\ At(host, 6) \in DigitChars
       \/ At(host, 5) = "3" /\ At(host, 6) \in {"0", "1"}
    /\ At(host, 7) = "."

\* lines 34-44: the names and suffixes of the local machine and network
IsLocalNameNoLocal(host) ==
    \/ host = "localhost"
    \/ host = "0.0.0.0"
    \/ host = "::"
    \/ host = "::1"
    \/ EndsWith(host, ".localhost")
    \/ EndsWith(host, ".internal")

IsLocalName(host) ==
    \/ host = "localhost"
    \/ host = "0.0.0.0"
    \/ host = "::"
    \/ host = "::1"
    \/ EndsWith(host, ".localhost")
    \/ EndsWith(host, ".local")
    \/ EndsWith(host, ".internal")

\* lines 46-54: the loopback, private and link-local IPv4 prefixes
IsPrivateIPv4Prefix(host) ==
    \/ StartsWith(host, "127.")
    \/ StartsWith(host, "10.")
    \/ StartsWith(host, "192.168.")
    \/ StartsWith(host, "169.254.")
    \/ Matches172(host)

\* line 57: the link-local and unique-local IPv6 prefixes
IsPrivateIPv6Prefix(host) ==
    StartsWith(host, "fe80:") \/ StartsWith(host, "fc") \/ StartsWith(host, "fd")

\* lines 32-60, of the lower-cased hostname without its brackets
IsPrivateOrLocal(host) ==
    IF host = "" THEN TRUE
    ELSE IF IsLocalName(host) THEN TRUE
    ELSE IF IsPrivateIPv4Prefix(host) THEN TRUE
    ELSE IF Includes(host, ":") THEN IsPrivateIPv6Prefix(host)
    ELSE FALSE

isPrivateOrLocalHost(h) == IsPrivateOrLocal(StripBrackets(ToLowerCase(h)))

\* Hostnames the classifier is handed, and the pieces further ones are made of.
HostSeeds ==
    {"", "127.0.0.1", "10.0.0.1", "192.168.1.1", "169.254.1.1", "localhost",
     "foo.local", "::1", "fe80::1", "example.com", "8.8.8.8", "youtube.com",
     "172.", "0.0.0.0", "::", "fc", "FD", "[", "foo", "[::1]", "[FD00::1"}

HostChunks ==
    {".", "1", "15.", "16.", "29.", "31.", "32.", "0.1", ":", "00::1", "]",
     ".LOCAL", ".localhost", ".internal", "example.com", "127.", "fe80:"}

TypeHost ==
    /\ ~hostCalled
    /\ hostTyped < MaxHostChunks
    /\ \E c \in HostChunks : hostname' = hostname \o c
    /\ hostTyped' = hostTyped + 1
    /\ UNCHANGED <<hostCalled, hostResult>>
    /\ UNCHANGED <<waitVars, retryVars, clampVars, linkVars, routeVars, normVars, errorVars>>

CallIsPrivateOrLocalHost ==
    /\ ~hostCalled
    /\ hostCalled' = TRUE
    /\ hostResult' = isPrivateOrLocalHost(hostname)
    /\ UNCHANGED <<hostname, hostTyped>>
    /\ UNCHANGED <<waitVars, retryVars, clampVars, linkVars, routeVars, normVars, errorVars>>

(* Properties of isPrivateOrLocalHost *)

\* the decimal numeral of n, 0 <= n <= 99, without a leading zero
Numeral(n) ==
    IF n < 10 THEN At("0123456789", n + 1)
    ELSE At("0123456789", (n \div 10) + 1) \o At("0123456789", (n % 10) + 1)

PrivateIPv4Prefixes ==
    {"127.", "10.", "192.168.", "169.254."} \cup {"172." \o Numeral(n) \o "." : n \in 16..31}

\* The hosts the specification lists as private or local.
ListedPrivate(h) ==
    LET x == StripBrackets(ToLowerCase(h))
    IN  \/ x = ""
        \/ x \in {"localhost", "0.0.0.0", "::", "::1"}
        \/ \E suffix \in {".localhost", ".local", ".internal"} : EndsWith(x, suffix)
        \/ \E prefix \in PrivateIPv4Prefixes : StartsWith(x, prefix)
        \/ /\ IndexOf(x, ":") > 0
           /\ \E prefix \in {"fe80:", "fc", "fd"} : StartsWith(x, prefix)

\* C6: isPrivateOrLocalHost(h) is true exactly for the listed hosts (empty,
\* the local names and suffixes, the textual private IPv4 prefixes, and the
\* fe80:/fc/fd prefixes of a host containing a colon) and false for all others.
C6_ExactlyListed == hostCalled => (hostResult = ListedPrivate(hostname))

\* a host starting with 172.32. has been classified public
C6_Witness == hostCalled /\ hostname = "172.32.0.1" /\ ~hostResult

\* C7: the eight private or local hosts of the specification are classified
\* true and its three public hosts false.
C7_Examples ==
    hostCalled =>
        /\ hostname \in {"127.0.0.1", "10.0.0.1", "192.168.1.1", "169.254.1.1",
                         "localhost", "foo.local", "::1", "fe80::1"} => hostResult
        /\ hostname \in {"example.com", "8.8.8.8", "youtube.com"} => ~hostResult

\* foo.local has been classified private
C7_Witness == hostCalled /\ hostname = "foo.local" /\ hostResult

-----------------------------------------------------------------------------
(* download-retry.ts: the error patterns *)

\* whether p occurs in t at position i
HasAt(t, i, p) == i >= 1 /\ i + Len(p) - 1 <= Len(t) /\ SubSeq(t, i, i + Len(p) - 1) = p

\* \s
IsSpace(c) == c \in WhiteSpace
\* \w
IsWordChar(c) == c \in AlphaChars \/ c \in DigitChars \/ c = "_"
\* \d
IsDigit(c) == c \in DigitChars
\* . (anything but a line terminator)
IsDot(c) == c \notin {"\n", "\r"}

\* \b between positions i - 1 and i of t
WordBoundary(t, i) ==
    LET before == i > 1 /\ i - 1 <= Len(t) /\ IsWordChar(At(t, i - 1))
        after == i >= 1 /\ i <= Len(t) /\ IsWordChar(At(t, i))
    IN  before # after

\* /a\s*b/ (least = 0) and /a\s+b/ (least = 1): a, white space, then b
SpacedPair(t, a, least, b) ==
    \E i \in 1..Len(t) :
        /\ HasAt(t, i, a)
        /\ \E k \in (i + Len(a) + least)..Len(t) :
              /\ \A x \in (i + Len(a))..(k - 1) : IsSpace(At(t, x))
              /\ HasAt(t, k, b)

\* /a\s+b\s+c/
SpacedTriple(t, a, b, c) ==
    \E i \in 1..Len(t) :
        /\ HasAt(t, i, a)
        /\ \E k \in (i + Len(a) + 1)..Len(t) :
              /\ \A x \in (i + Len(a))..(k - 1) : IsSpace(At(t, x))
              /\ HasAt(t, k, b)
              /\ \E m \in (k + Len(b) + 1)..Len(t) :
                    /\ \A x \in (k + Len(b))..(m - 1) : IsSpace(At(t, x))
                    /\ HasAt(t, m, c)

\* /\b5\d{2}\b/
Status5xx(t) ==
    \E i \in 1..(Len(t) - 2) :
        /\ WordBoundary(t, i)
        /\ At(t, i) = "5" /\ IsDigit(At(t, i + 1)) /\ IsDigit(At(t, i + 2))
        /\ WordBoundary(t, i + 3)

\* /\b429\b/
Status429(t) ==
    \E i \in 1..(Len(t) - 2) :
        WordBoundary(t, i) /\ HasAt(t, i, "429") /\ WordBoundary(t, i + 3)

\* /http error 5\d{2}/
HttpError5xx(t) ==
    \E i \in 1..Len(t) :
        /\ HasAt(t, i, "http error 5")
        /\ i + 13 <= Len(t)
        /\ IsDigit(At(t, i + 12)) /\ IsDigit(At(t, i + 13))

\* /fragment.*(?:failed|error)/
FragmentFailed(t) ==
    \E i \in 1..Len(t) :
        /\ HasAt(t, i, "fragment")
        /\ \E k \in (i + 8)..Len(t) :
              /\ \A x \in (i + 8)..(k - 1) : IsDot(At(t, x))
              /\ HasAt(t, k, "failed") \/ HasAt(t, k, "error")

\* RETRYABLE_PATTERNS.some((pattern) => pattern.test(text)); every pattern has
\* the flag i, so the text is matched in lower case
RetryableMatch(text) ==
    LET t == ToLowerCase(text)
    IN  \/ SpacedPair(t, "time", 0, "out") \/ SpacedPair(t, "timed", 0, "out")
        \/ Includes(t, "timeout")
        \/ \E w \in {"reset", "aborted", "closed", "refused"} :
              Includes(t, "connection " \o w)
        \/ SpacedPair(t, "network", 1, "unreachable")
        \/ SpacedTriple(t, "network", "is", "unreachable")
        \/ SpacedPair(t, "temporarily", 1, "unavailable")
        \/ SpacedPair(t, "temporary", 1, "unavailable")
        \/ Includes(t, "try again")
        \/ Includes(t, "too many requests")
        \/ Status429(t)
        \/ Status5xx(t)
        \/ HttpError5xx(t)
        \/ \E opt \in {"", "stream "}, w \in {"ended", "interrupted", "is offline"} :
              Includes(t, "live " \o opt \o w)
        \/ FragmentFailed(t)
        \/ Includes(t, "unable to download video data")
        \/ Includes(t, "remote end closed connection")
        \/ Includes(t, "tls") \/ Includes(t, "ssl")

\* /geo(?:-|\s)?restricted/
GeoRestricted(t) ==
    \E i \in 1..Len(t) :
        /\ HasAt(t, i, "geo")
        /\ \/ HasAt(t, i + 3, "restricted")
           \/ /\ i + 3 <= Len(t)
              /\ At(t, i + 3) = "-" \/ IsSpace(At(t, i + 3))
              /\ HasAt(t, i + 4, "restricted")

\* NON_RETRYABLE_PATTERNS.some((pattern) => pattern.test(text))
NonRetryableMatch(text) ==
    LET t == ToLowerCase(text)
    IN  \/ Includes(t, "private video")
        \/ Includes(t, "video unavailable")
        \/ Includes(t, "this video is not available")
        \/ Includes(t, "copyright")
        \/ GeoRestricted(t)
        \/ Includes(t, "not available in your country")
        \/ Includes(t, "sign in")
        \/ Includes(t, "login required")
        \/ Includes(t, "unsupported url")
        \/ Includes(t, "unsupported site")
        \/ Includes(t, "drm")
        \/ Includes(t, "permission denied")
        \/ Includes(t, "no such file or directory")
        \/ Includes(t, "invalid url")

isNonRetryableError(m) ==
    LET text == Trim(m)
    IN  IF text = "" THEN FALSE ELSE NonRetryableMatch(text)

\* isRetryableError without its isNonRetryableError(text) test
isRetryableErrorNoPrecedence(m) ==
    LET text == Trim(m)
    IN  IF text = "" THEN FALSE ELSE RetryableMatch(text)

\* isRetryableError returning true for a message no pattern matches
isRetryableErrorFailOpen(m) ==
    LET text == Trim(m)
    IN  IF text = "" \/ isNonRetryableError(text) THEN FALSE ELSE TRUE

isRetryableError(m) ==
    LET text == Trim(m)
    IN  IF text = "" \/ isNonRetryableError(text) THEN FALSE ELSE RetryableMatch(text)

\* Messages the download subprocess reports, and the pieces further ones are made of.
MessageSeeds ==
    {"", " ", "Private video", "HTTP Error 503: Service Unavailable",
     "ERROR: fragment 3", "Sign in", "geo", "read", "network"}

MessageChunks ==
    {" ", "\n", " timed", "out", " out", " Private Video", "429", "5", "03", "x",
     "SSL", "-restricted", "failed", " is", " unreachable", "Connection reset"}

TypeMessage ==
    /\ ~retryCalled
    /\ msgTyped < MaxMsgChunks
    /\ \E c \in MessageChunks : message' = message \o c
    /\ msgTyped' = msgTyped + 1
    /\ UNCHANGED <<retryCalled, retryable, nonRetryable>>
    /\ UNCHANGED <<waitVars, hostVars, clampVars, linkVars, routeVars, normVars, errorVars>>

\* the caller classifies the message with both predicates
CallClassify ==
    /\ ~retryCalled
    /\ retryCalled' = TRUE
    /\ retryable' = isRetryableError(message)
    /\ nonRetryable' = isNonRetryableError(message)
    /\ UNCHANGED <<message, msgTyped>>
    /\ UNCHANGED <<waitVars, hostVars, clampVars, linkVars, routeVars, normVars, errorVars>>

(* Properties of the classifiers *)

\* C3: isRetryableError and isNonRetryableError are never both true, and a
\* message that matches a non-retryable and a retryable pattern is classified
\* non-retryable, not retryable.
C3_NonRetryableWins ==
    retryCalled =>
        /\ ~(retryable /\ nonRetryable)
        /\ (NonRetryableMatch(message) /\ RetryableMatch(message))
              => (nonRetryable /\ ~retryable)

\* a message matching both pattern sets has been classified
C3_Witness ==
    /\ retryCalled
    /\ message = "Private video timed out"
    /\ NonRetryableMatch(message) /\ RetryableMatch(message)
    /\ nonRetryable /\ ~retryable

\* C8: isRetryableError(m) is true only for a non-blank m that matches no
\* non-retryable pattern and some retryable pattern; a blank message and a
\* message matching neither set make both predicates false.
C8_FailClosed ==
    retryCalled =>
        /\ retryable =>
              /\ Trim(message) # ""
              /\ ~NonRetryableMatch(message)
              /\ RetryableMatch(message)
        /\ (Trim(message) = "" \/ (~NonRetryableMatch(message) /\ ~RetryableMatch(message)))
              => (~retryable /\ ~nonRetryable)
        /\ message = "HTTP Error 503: Service Unavailable" => retryable

\* the 503 message has been classified retryable
C8_Witness ==
    retryCalled /\ message = "HTTP Error 503: Service Unavailable" /\ retryable

-----------------------------------------------------------------------------
(* download-retry.ts: the clamps *)

\* A JavaScript number is a record: a finite number is counted in halves
\* (half = 2 * the number), so that 0.5 and 2.5 are numbers too; NaN, the two
\* infinities and undefined (a missing setting) are kinds of their own.
Num(n) == [kind |-> "number", half |-> 2 * n]
Half(h) == [kind |-> "number", half |-> h]
NaN == [kind |-> "NaN", half |-> 0]
Undefined == [kind |-> "undefined", half |-> 0]
PosInfinity == [kind |-> "Infinity", half |-> 0]
NegInfinity == [kind |-> "-Infinity", half |-> 0]

AUTO_RETRY_LIMITS ==
    [maxAttempts |-> [min |-> 1, max |-> 10, default |-> 3],
     delaySeconds |-> [min |-> 1, max |-> 60, default |-> 5]]

\* ToBoolean(v)
Truthy(v) ==
    CASE v.kind = "number" -> v.half # 0
      [] v.kind \in {"Infinity", "-Infinity"} -> TRUE
      [] OTHER -> FALSE

\* v ?? d: only a missing value is replaced
NullishOr(v, d) == IF v.kind = "undefined" THEN d ELSE v

\* v || d
Or(v, d) == IF Truthy(v) THEN v ELSE d

\* a <= b for two numbers that are not NaN
NumLeq(a, b) ==
    CASE a.kind = "-Infinity" \/ b.kind = "Infinity" -> TRUE
      [] a.kind = "Infinity" \/ b.kind = "-Infinity" -> FALSE
      [] OTHER -> a.half <= b.half

\* ToNumber(v)
ToNumber(v) == IF v.kind = "undefined" THEN NaN ELSE v

\* Math.min(a, b), Math.max(a, b)
MathMin(a, b) ==
    LET x == ToNumber(a)
        y == ToNumber(b)
    IN  IF x.kind = "NaN" \/ y.kind = "NaN" THEN NaN
        ELSE IF NumLeq(x, y) THEN x ELSE y

MathMax(a, b) ==
    LET x == ToNumber(a)
        y == ToNumber(b)
    IN  IF x.kind = "NaN" \/ y.kind = "NaN" THEN NaN
        ELSE IF NumLeq(x, y) THEN y ELSE x

clampAutoRetryMaxAttempts(v) ==
    LET min == AUTO_RETRY_LIMITS.maxAttempts.min
        max == AUTO_RETRY_LIMITS.maxAttempts.max
    IN  MathMax(Num(min), MathMin(Num(max), Or(v, Num(AUTO_RETRY_LIMITS.maxAttempts.default))))

clampAutoRetryDelaySeconds(v) ==
    LET min == AUTO_RETRY_LIMITS.delaySeconds.min
        max == AUTO_RETRY_LIMITS.delaySeconds.max
    IN  MathMax(Num(min), MathMin(Num(max), Or(v, Num(AUTO_RETRY_LIMITS.delaySeconds.default))))

\* The settings a caller may hand over: every half from below zero to beyond
\* the larger maximum, a far larger number, NaN, the infinities and undefined.
ClampInputs ==
    {Half(h) : h \in (-2 * ClampMargin)..(2 * (AUTO_RETRY_LIMITS.delaySeconds.max + ClampMargin))}
        \cup {Num(999), NaN, Undefined, PosInfinity, NegInfinity}

CallClamp ==
    /\ ~clampCalled
    /\ clampCalled' = TRUE
    /\ attempts' = clampAutoRetryMaxAttempts(value)
    /\ delay' = clampAutoRetryDelaySeconds(value)
    /\ UNCHANGED value
    /\ UNCHANGED <<waitVars, hostVars, retryVars, linkVars, routeVars, normVars, errorVars>>

(* Properties of the clamps *)

\* lo <= v <= hi for a finite number v
Within(v, lo, hi) == v.kind = "number" /\ 2 * lo <= v.half /\ v.half <= 2 * hi

\* C9: for every supplied number, NaN and undefined included, the attempts are
\* within [1, 10] and the delay within [1, 60]; a falsy input gives the
\* defaults 3 and 5, clampAutoRetryMaxAttempts(0) = 3 and
\* clampAutoRetryMaxAttempts(999) = 10.
C9_ClampedOrDefault ==
    clampCalled =>
        /\ Within(attempts, 1, 10)
        /\ Within(delay, 1, 60)
        /\ value \in {Num(0), NaN, Undefined} => (attempts = Num(3) /\ delay = Num(5))
        /\ value = Num(999) => attempts = Num(10)

\* zero has been clamped to the default number of attempts
C9_Witness == clampCalled /\ value = Num(0) /\ attempts = Num(3) /\ delay = Num(5)

(* download-retry.ts: normalizeErrorMessage *)

\* how a call or a conversion ends: with a string, or with an exception
Returns(text) == [threw |-> FALSE, text |-> text]
Throws == [threw |-> TRUE, text |-> ""]

\* The JavaScript values, by what normalizeErrorMessage can observe of one: its
\* typeof, its truthiness, its content if it is a string, what reading its
\* message property does (a getter or a proxy trap may throw, the property
\* may be missing, hold a string or hold something else) and how
\* String(value) ends (the literal of a primitive; for an object whatever
\* its toString returns, or an exception, as for Object.create(null)).
ErrorValues ==
    LET NoMessage == [kind |-> "absent", text |-> ""]
        Value(type, truthy, text, msg, conversion) ==
            [typeof |-> type, truthy |-> truthy, text |-> text, message |-> msg,
             conversion |-> conversion]
        Primitive(type, truthy, literal) ==
            Value(type, truthy, "", NoMessage, Returns(literal))
        MessageReads ==
            {NoMessage, [kind |-> "throws", text |-> ""], [kind |-> "other", text |-> ""]}
                \cup {[kind |-> "string", text |-> t] :
                          t \in {"", "  ", "\t\n", "boom", " x ", "HTTP Error 503"}}
        Conversions ==
            {Throws} \cup {Returns(t) :
                              t \in {"", "[object Object]", "Error: boom", "TypeError: x"}}
    IN  {Value("string", t # "", t, NoMessage, Returns(t)) : t \in {"", "  ", "boom"}}
            \cup {Primitive("undefined", FALSE, "undefined"),
                  Primitive("boolean", TRUE, "true"), Primitive("boolean", FALSE, "false"),
                  Primitive("number", FALSE, "0"), Primitive("number", FALSE, "NaN"),
                  Primitive("number", TRUE, "42"), Primitive("symbol", TRUE, "Symbol(x)"),
                  Primitive("bigint", TRUE, "7"),
                  Value("object", FALSE, "", NoMessage, Returns("null"))}
            \cup {Value("object", TRUE, "", m, c) : m \in MessageReads, c \in Conversions}
            \cup {Value("function", TRUE, "", m, Returns("function () {}")) :
                      m \in {NoMessage, [kind |-> "string", text |-> "boom"]}}

\* lines 52-64; the read of line 54 stands outside the try of line 59
normalizeErrorMessage(e) ==
    IF e.typeof = "string" THEN Returns(e.text)
    ELSE IF e.truthy /\ e.typeof = "object" /\ e.message.kind = "throws" THEN Throws
    ELSE IF /\ e.truthy /\ e.typeof = "object"
            /\ e.message.kind = "string" /\ Trim(e.message.text) # ""
         THEN Returns(e.message.text)
    ELSE IF e.conversion.threw THEN Returns("Unknown error")
    ELSE IF e.conversion.text = "" THEN Returns("Unknown error")
    ELSE Returns(e.conversion.text)

CallNormalizeErrorMessage ==
    /\ ~errorCalled
    /\ errorCalled' = TRUE
    /\ outcome' = normalizeErrorMessage(error)
    /\ UNCHANGED error
    /\ UNCHANGED <<waitVars, hostVars, retryVars, clampVars, linkVars, routeVars, normVars>>

\* the value carries a message that is a non-blank string
HasMessage(v) ==
    /\ v.truthy /\ v.typeof = "object"
    /\ v.message.kind = "string" /\ Trim(v.message.text) # ""

\* C14: normalizeErrorMessage returns a string and throws for no error value,
\* an object whose message property cannot be read included; for a value
\* that is no string and carries no message, whose string conversion fails
\* or yields the empty string, it returns "Unknown error".
C14_NeverThrows ==
    errorCalled =>
        /\ ~outcome.threw
        /\ (error.typeof # "string" /\ ~HasMessage(error)
              /\ (error.conversion.threw \/ error.conversion.text = ""))
              => outcome = Returns("Unknown error")

-----------------------------------------------------------------------------
(* The platform's URL class (new URL, searchParams, toString), as the WHATWG  *)
(* URL standard defines it, for the URLs of the input language: ASCII, no     *)
(* dot segments in the path, a backtick nowhere, IPv4 numbers within 31       *)
(* bits, IPv6 literals written in their compressed lower- or upper-case form. *)

\* the ASCII characters 0x20..0x5F and 0x61..0x7E, by code
Ascii20 == " !\"#$%&'()*+,-./0123456789:;<=>?@ABCDEFGHIJKLMNOPQRSTUVWXYZ[\\]^_"
Ascii61 == "abcdefghijklmnopqrstuvwxyz{|}~"
HexUpper == "0123456789ABCDEF"

\* the code of an ASCII character, 0 outside the table
CodeOf(c) ==
    IF IndexOf(Ascii20, c) > 0 THEN IndexOf(Ascii20, c) + 31
    ELSE IF IndexOf(Ascii61, c) > 0 THEN IndexOf(Ascii61, c) + 96
    ELSE IF c = "\t" THEN 9 ELSE IF c = "\n" THEN 10 ELSE IF c = "\r" THEN 13 ELSE 0

\* the value of a hexadecimal digit, -1 for any other character
HexValue(c) ==
    IF Len(c) # 1 THEN -1
    ELSE IF IndexOf(HexUpper, c) > 0 THEN IndexOf(HexUpper, c) - 1
    ELSE IF IndexOf("abcdef", c) > 0 THEN IndexOf("abcdef", c) + 9
    ELSE -1

\* the character of a byte; a byte outside the table has none ("")
CharOf(b) ==
    IF 32 <= b /\ b <= 95 THEN At(Ascii20, b - 31)
    ELSE IF 97 <= b /\ b <= 126 THEN At(Ascii61, b - 96)
    ELSE IF b = 9 THEN "\t" ELSE IF b = 10 THEN "\n" ELSE IF b = 13 THEN "\r" ELSE ""

\* the character %XY denotes at the start of s, "" if there is none
DecodedChar(s) ==
    IF HexValue(At(s, 2)) >= 0 /\ HexValue(At(s, 3)) >= 0
    THEN CharOf(16 * HexValue(At(s, 2)) + HexValue(At(s, 3)))
    ELSE ""

\* percent-decode; a %XX outside the table is left as it is written
RECURSIVE PercentDecode(_)
PercentDecode(s) ==
    LET i == IndexOf(s, "%")
    IN  IF i = 0 THEN s
        ELSE IF DecodedChar(From(s, i)) = ""
        THEN Before(s, i + 1) \o PercentDecode(From(s, i + 1))
        ELSE Before(s, i) \o DecodedChar(From(s, i)) \o PercentDecode(From(s, i + 3))

\* %XX of a character
PercentEncoded(c) ==
    "%" \o At(HexUpper, (CodeOf(c) \div 16) + 1) \o At(HexUpper, (CodeOf(c) % 16) + 1)

\* s with every character of the set C percent-encoded
RECURSIVE PercentEncode(_, _)
PercentEncode(s, C) ==
    LET i == IndexOfAny(s, C)
    IN  IF i = 0 THEN s
        ELSE Before(s, i) \o PercentEncoded(At(s, i)) \o PercentEncode(From(s, i + 1), C)

\* s with every character of the set C removed
RECURSIVE Remove(_, _)
Remove(s, C) ==
    LET i == IndexOfAny(s, C)
    IN  IF i = 0 THEN s ELSE Before(s, i) \o Remove(From(s, i + 1), C)

\* s with every c replaced by d
RECURSIVE ReplaceAll(_, _, _)
ReplaceAll(s, c, d) ==
    LET i == IndexOf(s, c)
    IN  IF i = 0 THEN s ELSE Before(s, i) \o d \o ReplaceAll(From(s, i + 1), c, d)

\* s.split(c) for a single character c
RECURSIVE Split(_, _)
Split(s, c) ==
    LET i == IndexOf(s, c)
    IN  IF i = 0 THEN <<s>> ELSE <<Before(s, i)>> \o Split(From(s, i + 1), c)

\* the number a string of digits of the radix denotes, -1 if it is none;
\* rest is the number its digits before the last denote
RECURSIVE DigitsValue(_, _)
WithLastDigit(rest, d, radix) ==
    IF d < 0 \/ d >= radix \/ rest < 0 THEN -1 ELSE rest * radix + d

DigitsValue(s, radix) ==
    IF s = "" THEN 0
    ELSE WithLastDigit(DigitsValue(Before(s, Len(s)), radix), HexValue(At(s, Len(s))), radix)

\* the decimal numeral of n >= 0
RECURSIVE DecimalOf(_)
DecimalOf(n) ==
    IF n < 10 THEN At(HexUpper, n + 1)
    ELSE DecimalOf(n \div 10) \o At(HexUpper, (n % 10) + 1)

IsAllDigits(s) == s # "" /\ \A i \in 1..Len(s) : At(s, i) \in DigitChars

\* the IPv4 number parser: 0x.. is hexadecimal, 0.. octal, -1 is failure
IPv4Number(part) ==
    IF part = "" THEN -1
    ELSE IF Len(part) >= 2 /\ Before(part, 3) \in {"0x", "0X"}
    THEN DigitsValue(From(part, 3), 16)
    ELSE IF Len(part) >= 2 /\ At(part, 1) = "0"
    THEN DigitsValue(From(part, 2), 8)
    ELSE DigitsValue(part, 10)

\* the parts of a host between its dots, a last empty part dropped
HostParts(host) ==
    LET parts == Split(host, ".")
    IN  IF Len(parts) > 1 /\ parts[Len(parts)] = ""
        THEN SubSeq(parts, 1, Len(parts) - 1) ELSE parts

\* the IPv4 serializer of the n numbers of an address: the dotted-decimal
\* address, "" on failure
IPv4Serialize(n, nums) ==
    IF n > 4 \/ \E i \in 1..n : nums[i] < 0 THEN ""
    ELSE IF \E i \in 1..(n - 1) : nums[i] > 255 THEN ""
    ELSE IF n = 4 /\ nums[n] >= 256 THEN ""
    ELSE IF n = 3 /\ nums[n] >= 65536 THEN ""
    ELSE IF n = 2 /\ nums[n] >= 16777216 THEN ""
    ELSE DecimalOf(IF n >= 2 THEN nums[1] ELSE nums[n] \div 16777216) \o "."
            \o DecimalOf(IF n >= 3 THEN nums[2] ELSE (nums[n] \div 65536) % 256) \o "."
            \o DecimalOf(IF n >= 4 THEN nums[3] ELSE (nums[n] \div 256) % 256) \o "."
            \o DecimalOf(nums[n] % 256)

\* the host parser of the parts of a domain: an IPv4 address if the last part
\* is a number, the domain if not; "" on failure
ParseDomainParts(domain, parts) ==
    IF IsAllDigits(parts[Len(parts)]) \/ IPv4Number(parts[Len(parts)]) >= 0
    THEN IPv4Serialize(Len(parts), [i \in 1..Len(parts) |-> IPv4Number(parts[i])])
    ELSE domain

ForbiddenHostChars ==
    {" ", "#", "/", ":", "<", ">", "?", "@", "[", "\\", "]", "^", "|", "\t", "\n", "\r"}

HexDigitChars == DigitChars \cup {At("abcdefABCDEF", i) : i \in 1..12}

\* the host parser of a percent-decoded, lower-cased domain
ParseDomain(domain) ==
    IF domain = "" THEN ""
    ELSE IF \E i \in 1..Len(domain) : At(domain, i) \in ForbiddenHostChars \cup {"%"}
    THEN ""
    ELSE ParseDomainParts(domain, HostParts(domain))

\* the host parser: the serialized host, "" on failure
ParseHost(input, special) ==
    IF StartsWith(input, "[")
    THEN \* an IPv6 literal, serialized in lower case
         IF ~EndsWith(input, "]") \/ Len(input) < 4 THEN ""
         ELSE IF \E i \in 2..(Len(input) - 1) : At(input, i) \notin HexDigitChars \cup {":"}
         THEN ""
         ELSE ToLowerCase(input)
    ELSE IF ~special
    THEN \* an opaque host, kept as it is written
         IF \E i \in 1..Len(input) : At(input, i) \in ForbiddenHostChars THEN "" ELSE input
    ELSE ParseDomain(ToLowerCase(PercentDecode(input)))

SpecialSchemes == {"http", "https", "ftp", "ws", "wss"}

DefaultPort(scheme) ==
    CASE scheme \in {"http", "ws"} -> 80
      [] scheme \in {"https", "wss"} -> 443
      [] scheme = "ftp" -> 21
      [] OTHER -> -1

SchemeChars == AlphaChars \cup DigitChars \cup {"+", "-", "."}

\* the characters the parser percent-encodes in a path and in a query or a
\* fragment
PathEncodeSet == {" ", "\"", "<", ">", "{", "}"}
QueryEncodeSet(special) == {" ", "\"", "<", ">"} \cup (IF special THEN {"'"} ELSE {})

URLFailure ==
    [ok |-> FALSE, scheme |-> "", username |-> "", password |-> "", hasHost |-> FALSE,
     host |-> "", port |-> "", path |-> "", hasQuery |-> FALSE, query |-> "",
     hasFragment |-> FALSE, fragment |-> ""]

\* The URL parser, its steps from the last to the first.  rest holds the
\* parsed query and fragment, creds the user name and the password.

\* the URL of a parsed host and port
AssembleURL(scheme, creds, hostText, host, portValue, path, rest) ==
    IF portValue > 65535 THEN URLFailure
    ELSE IF hostText # "" /\ host = "" THEN URLFailure
    ELSE [ok |-> TRUE, scheme |-> scheme, username |-> creds.username,
          password |-> creds.password, hasHost |-> TRUE, host |-> host,
          port |-> IF portValue < 0 \/ portValue = DefaultPort(scheme)
                   THEN "" ELSE DecimalOf(portValue),
          path |-> path, hasQuery |-> rest.hasQuery, query |-> rest.query,
          hasFragment |-> rest.hasFragment, fragment |-> rest.fragment]

\* the host and the port of their texts; marked: the authority has an "@" or
\* a ":" before a port
ParseHostAndPort(scheme, creds, marked, hostText, portText, path, rest) ==
    IF portText # "" /\ ~IsAllDigits(portText) THEN URLFailure
    ELSE IF hostText = "" /\ (scheme \in SpecialSchemes \/ marked) THEN URLFailure
    ELSE AssembleURL(scheme, creds, hostText, ParseHost(hostText, scheme \in SpecialSchemes),
                     IF portText = "" THEN -1
                     ELSE IF Len(portText) > 5 THEN 65536
                     ELSE DigitsValue(portText, 10),
                     path, rest)

\* `host[:port]`, the host possibly an IPv6 literal in brackets
ParseHostPort(scheme, creds, hasAt, hostport, path, rest) ==
    LET close == IndexOf(hostport, "]")
        colonH == IF StartsWith(hostport, "[") /\ close > 0
                  THEN (IF At(hostport, close + 1) = ":" THEN close + 1 ELSE 0)
                  ELSE IndexOf(hostport, ":")
    IN  IF StartsWith(hostport, "[") /\ close > 0 /\ close < Len(hostport)
               /\ At(hostport, close + 1) # ":"
        THEN URLFailure
        ELSE ParseHostAndPort(scheme, creds, hasAt \/ colonH > 0,
                              IF colonH = 0 THEN hostport ELSE Before(hostport, colonH),
                              IF colonH = 0 THEN "" ELSE From(hostport, colonH + 1),
                              path, rest)

\* the user name and the password of `username[:password]`
Credentials(userinfo) ==
    LET colonU == IndexOf(userinfo, ":")
    IN  [username |-> IF colonU = 0 THEN userinfo ELSE Before(userinfo, colonU),
         password |-> IF colonU = 0 THEN "" ELSE From(userinfo, colonU + 1)]

\* the authority `[userinfo@]host[:port]` of a URL of the given scheme
ParseAuthority(scheme, authority, path, rest) ==
    LET at == LastIndexOf(authority, "@")
    IN  ParseHostPort(scheme, Credentials(IF at = 0 THEN "" ELSE Before(authority, at)),
                      at > 0, From(authority, at + 1), path, rest)

\* the authority and the path of what follows the slashes
ParseAfterSlashes(scheme, after, rest) ==
    LET slash == IndexOf(after, "/")
    IN  ParseAuthority(scheme,
                       IF slash = 0 THEN after ELSE Before(after, slash),
                       PercentEncode(IF slash # 0 THEN From(after, slash)
                                     ELSE IF scheme \in SpecialSchemes THEN "/" ELSE "",
                                     PathEncodeSet),
                       rest)

\* s without its leading slashes
SkipSlashes(s) ==
    LET lead == IndexOfNone(s, {"/"}) IN IF lead = 0 THEN "" ELSE From(s, lead)

\* what lies between the scheme and the query: after any run of "/" and "\"
\* an authority if the scheme is special, after "//" an authority if it is not
ParseHierarchy(scheme, hier, rest) ==
    IF scheme \notin SpecialSchemes /\ ~StartsWith(hier, "//")
    THEN \* no authority: a path-only or an opaque-path URL, whose host is null
         [ok |-> TRUE, scheme |-> scheme, username |-> "", password |-> "",
          hasHost |-> FALSE, host |-> "", port |-> "", path |-> hier,
          hasQuery |-> rest.hasQuery, query |-> rest.query,
          hasFragment |-> rest.hasFragment, fragment |-> rest.fragment]
    ELSE ParseAfterSlashes(scheme,
                           IF scheme \in SpecialSchemes
                           THEN SkipSlashes(ReplaceAll(hier, "\\", "/"))
                           ELSE From(hier, 3),
                           rest)

\* the query, from the first "?" of what precedes the fragment
ParseQuery(scheme, body, hasF, f) ==
    LET mark == IndexOf(body, "?")
    IN  ParseHierarchy(scheme,
                       IF mark > 0 THEN Before(body, mark) ELSE body,
                       [hasQuery |-> mark > 0,
                        query |-> IF mark > 0
                                  THEN PercentEncode(From(body, mark + 1),
                                                     QueryEncodeSet(scheme \in SpecialSchemes))
                                  ELSE "",
                        hasFragment |-> hasF, fragment |-> f])

\* the fragment, from the first "#" of what follows the scheme
ParseFragment(scheme, rest) ==
    LET hash == IndexOf(rest, "#")
    IN  ParseQuery(scheme,
                   IF hash > 0 THEN Before(rest, hash) ELSE rest,
                   hash > 0,
                   IF hash > 0 THEN PercentEncode(From(rest, hash + 1), QueryEncodeSet(FALSE))
                   ELSE "")

\* the scheme: a letter, then letters, digits, "+", "-" and ".", before ":"
ParseScheme(s) ==
    LET colon == IndexOf(s, ":")
    IN  IF \/ colon <= 1
           \/ At(s, 1) \notin AlphaChars
           \/ \E i \in 1..(colon - 1) : At(s, i) \notin SchemeChars
        THEN URLFailure
        ELSE ParseFragment(ToLowerCase(Before(s, colon)), From(s, colon + 1))

\* new URL(input): the parsed URL record, URLFailure when the constructor throws
ParseURL(input) == ParseScheme(Remove(Trim(input), {"\t", "\n", "\r"}))

\* url.protocol and url.hostname
Protocol(u) == u.scheme \o ":"
Hostname(u) == u.host

\* url.toString()
SerializeURL(u) ==
    u.scheme \o ":"
      \o (IF u.hasHost
          THEN "//" \o (IF u.username # "" \/ u.password # ""
                        THEN u.username \o (IF u.password # "" THEN ":" \o u.password ELSE "")
                                 \o "@"
                        ELSE "")
                    \o u.host \o (IF u.port # "" THEN ":" \o u.port ELSE "")
          ELSE "")
      \o u.path
      \o (IF u.hasQuery THEN "?" \o u.query ELSE "")
      \o (IF u.hasFragment THEN "#" \o u.fragment ELSE "")

\* url.searchParams: the list of name-value pairs of the query
NameValue(piece) ==
    LET eq == IndexOf(piece, "=")
    IN  [name |-> PercentDecode(IF eq = 0 THEN piece ELSE Before(piece, eq)),
         value |-> PercentDecode(IF eq = 0 THEN "" ELSE From(piece, eq + 1))]

RECURSIVE ParsePairs(_)
ParsePairs(pieces) ==
    IF Len(pieces) = 0 THEN <<>>
    ELSE (IF pieces[1] = "" THEN <<>> ELSE <<NameValue(ReplaceAll(pieces[1], "+", " "))>>)
            \o ParsePairs(Tail(pieces))

SearchParams(u) == IF u.hasQuery THEN ParsePairs(Split(u.query, "&")) ELSE <<>>

\* searchParams.has(name)
Has(params, name) == \E i \in 1..Len(params) : params[i].name = name

\* searchParams.get(name), with '' for null: the source treats the two alike
\* wherever it reads a parameter
Get(params, name) ==
    IF Has(params, name)
    THEN params[SetMin({i \in 1..Len(params) : params[i].name = name})].value
    ELSE ""

\* the list after removing only the first tuple of the name
RECURSIVE DeleteFirst(_, _)
DeleteFirst(params, name) ==
    IF Len(params) = 0 THEN <<>>
    ELSE IF params[1].name = name THEN Tail(params)
    ELSE <<params[1]>> \o DeleteFirst(Tail(params), name)

\* the list after searchParams.delete(name)
RECURSIVE Delete(_, _)
Delete(params, name) ==
    IF Len(params) = 0 THEN <<>>
    ELSE (IF params[1].name = name THEN <<>> ELSE <<params[1]>>) \o Delete(Tail(params), name)

\* the application/x-www-form-urlencoded byte serializer
FormSafeChars == AlphaChars \cup DigitChars \cup {"*", "-", ".", "_"}

RECURSIVE FormEncode(_)
FormEncode(s) ==
    LET i == IndexOfNone(s, FormSafeChars)
    IN  IF i = 0 THEN s
        ELSE Before(s, i) \o (IF At(s, i) = " " THEN "+" ELSE PercentEncoded(At(s, i)))
                 \o FormEncode(From(s, i + 1))

RECURSIVE SerializePairs(_)
SerializePairs(params) ==
    IF Len(params) = 0 THEN ""
    ELSE FormEncode(params[1].name) \o "=" \o FormEncode(params[1].value)
            \o (IF Len(params) > 1 THEN "&" \o SerializePairs(Tail(params)) ELSE "")

\* the URL after its searchParams list was changed to params (the update steps)
WithSearchParams(u, params) ==
    [u EXCEPT !.hasQuery = Len(params) > 0, !.query = SerializePairs(params)]

-----------------------------------------------------------------------------
(* external-link.ts *)

MAX_EXTERNAL_DEEPLINK_LENGTH == 4096
TRUSTED_EXTERNAL_SOURCES == {"ext-chromium", "ext-firefox"}

\* JavaScript's null, where a string may stand
Null == "(null)"

\* normalizeExternalSource without the test of line 23
normalizeExternalSourceAny(source) ==
    LET normalized == ToLowerCase(Trim(source))
    IN  IF normalized = "" THEN Null ELSE normalized

\* normalizeExternalSource(source); a missing parameter reads as ''
normalizeExternalSource(source) ==
    LET normalized == ToLowerCase(Trim(source))
    IN  IF normalized = "" THEN Null
        ELSE IF normalized \in TRUSTED_EXTERNAL_SOURCES THEN normalized ELSE Null

isTrustedExternalSource(source) ==
    source # Null /\ source # "" /\ source \in TRUSTED_EXTERNAL_SOURCES

\* lines 66-69 of isPublicHttpUrl without the host test
IsHttp(parsed) ==
    IF ~parsed.ok THEN FALSE
    ELSE Protocol(parsed) \in {"http:", "https:"}

\* lines 66-69: the protocol and the host of the parsed url
IsPublicHttp(parsed) ==
    IF ~parsed.ok THEN FALSE
    ELSE IF Protocol(parsed) # "http:" /\ Protocol(parsed) # "https:" THEN FALSE
    ELSE ~isPrivateOrLocalHost(Hostname(parsed))

\* isPublicHttpUrl without the host test
isPublicHttpUrlAnyHost(u) == IsHttp(ParseURL(u))

isPublicHttpUrl(u) == IsPublicHttp(ParseURL(u))

\* the absent audioBitrate of the video variant
Absent == "(absent)"

allowedVideoQualities == {"best", "8k", "4k", "2k", "1080", "720", "480", "360"}

\* parseEnqueueOptions with the quality parameter taken as it is
parseEnqueueOptionsUnchecked(params) ==
    LET media == IF Get(params, "media") = "audio" THEN "audio" ELSE "video"
        qualityParam == Get(params, "quality")
    IN  IF media = "audio"
        THEN [mediaType |-> "audio", quality |-> "audio",
              audioBitrate |-> IF qualityParam = "128" THEN "128" ELSE "auto"]
        ELSE [mediaType |-> "video",
              quality |-> IF qualityParam # "" THEN qualityParam ELSE "best",
              audioBitrate |-> Absent]

\* parseEnqueueOptions(parsed), from the searchParams of parsed
parseEnqueueOptions(params) ==
    LET media == IF Get(params, "media") = "audio" THEN "audio" ELSE "video"
        qualityParam == Get(params, "quality")
    IN  IF media = "audio"
        THEN [mediaType |-> "audio", quality |-> "audio",
              audioBitrate |-> IF qualityParam = "128" THEN "128" ELSE "auto"]
        ELSE [mediaType |-> "video",
              quality |-> IF qualityParam \in allowedVideoQualities
                          THEN qualityParam ELSE "best",
              audioBitrate |-> Absent]

isYouTubeHost(h) ==
    \/ h = "youtube.com"
    \/ h = "www.youtube.com"
    \/ h = "m.youtube.com"
    \/ h = "music.youtube.com"
    \/ h = "youtu.be"

\* line 121, of the parsed url
HasYouTubeHost(parsed) ==
    IF ~parsed.ok THEN FALSE ELSE isYouTubeHost(ToLowerCase(Hostname(parsed)))

isYouTubeUrl(u) == HasYouTubeHost(ParseURL(u))

\* the normalization with the delete of line 135 left out
NormalizedVideoUrlListOnly(u, parsed) ==
    LET host == ToLowerCase(Hostname(parsed))
        params == SearchParams(parsed)
    IN  IF ~parsed.ok THEN u
        ELSE IF isYouTubeHost(host) /\ (Has(params, "v") \/ host = "youtu.be")
        THEN SerializeURL(WithSearchParams(parsed, Delete(params, "list")))
        ELSE SerializeURL(parsed)

\* the normalization without the host test of line 131
NormalizedVideoUrlAnyHost(u, parsed) ==
    LET params == SearchParams(parsed)
    IN  IF ~parsed.ok THEN u
        ELSE IF Has(params, "v")
        THEN SerializeURL(WithSearchParams(parsed, Delete(Delete(params, "list"), "index")))
        ELSE SerializeURL(parsed)

\* lines 130-138, of the parsed url
NormalizedVideoUrl(u, parsed) ==
    LET host == ToLowerCase(Hostname(parsed))
        params == SearchParams(parsed)
    IN  IF ~parsed.ok THEN u
        ELSE IF isYouTubeHost(host) /\ (Has(params, "v") \/ host = "youtu.be")
        THEN SerializeURL(WithSearchParams(parsed, Delete(Delete(params, "list"), "index")))
        ELSE SerializeURL(parsed)

normalizeExternalVideoUrl(u) == NormalizedVideoUrl(u, ParseURL(u))

\* isSafeUrl of ./utils, which is not among the sources: the string-level
\* filter the specification describes, rejecting control characters and
\* encoded traversal sequences
isSafeUrl(u) ==
    /\ \A i \in 1..Len(u) : At(u, i) \notin {"\t", "\n", "\r"}
    /\ ~Includes(ToLowerCase(u), "%2e%2e")

\* `return null` at the given line of external-link.ts
Rejected(line) ==
    [ok |-> FALSE, exit |-> line, raw |-> "", url |-> "", target |-> "", action |-> "",
     enqueueOptions |-> [mediaType |-> "", quality |-> "", audioBitrate |-> ""],
     source |-> Null]

\* the length test with >= for >
ExceedsMaxLengthOffByOne(r) == Len(r) >= MAX_EXTERNAL_DEEPLINK_LENGTH

\* line 145: raw.length > MAX_EXTERNAL_DEEPLINK_LENGTH
ExceedsMaxLength(r) == Len(r) > MAX_EXTERNAL_DEEPLINK_LENGTH

\* lines 169-188 with the two actions of line 179 exchanged
RequestForQueueByDefault(r, params, normalizedUrl) ==
    LET targetParam == Get(params, "target")
        actionParam == Get(params, "action")
    IN  IF ~isSafeUrl(normalizedUrl) \/ ~isPublicHttpUrl(normalizedUrl) THEN Rejected(171)
        ELSE [ok |-> TRUE, exit |-> 181, raw |-> r, url |-> normalizedUrl,
              target |-> IF targetParam = "youtube" \/ targetParam = "universal"
                         THEN targetParam ELSE "auto",
              action |-> IF actionParam = "download_now" THEN "download_now"
                         ELSE "queue_only",
              enqueueOptions |-> parseEnqueueOptions(params),
              source |-> normalizeExternalSource(Get(params, "source"))]

\* lines 169-188 with an unrecognized target rejected instead of defaulted
RequestForStrictTarget(r, params, normalizedUrl) ==
    LET targetParam == Get(params, "target")
        actionParam == Get(params, "action")
    IN  IF ~isSafeUrl(normalizedUrl) \/ ~isPublicHttpUrl(normalizedUrl) THEN Rejected(171)
        ELSE IF targetParam \notin {"", "youtube", "universal", "auto"} THEN Rejected(176)
        ELSE [ok |-> TRUE, exit |-> 181, raw |-> r, url |-> normalizedUrl,
              target |-> IF targetParam = "youtube" \/ targetParam = "universal"
                         THEN targetParam ELSE "auto",
              action |-> IF actionParam = "queue_only" THEN "queue_only"
                         ELSE "download_now",
              enqueueOptions |-> parseEnqueueOptions(params),
              source |-> normalizeExternalSource(Get(params, "source"))]

\* lines 169-188, of the searchParams and the normalized url
RequestFor(r, params, normalizedUrl) ==
    LET targetParam == Get(params, "target")
        actionParam == Get(params, "action")
    IN  IF ~isSafeUrl(normalizedUrl) \/ ~isPublicHttpUrl(normalizedUrl) THEN Rejected(171)
        ELSE [ok |-> TRUE, exit |-> 181, raw |-> r, url |-> normalizedUrl,
              target |-> IF targetParam = "youtube" \/ targetParam = "universal"
                         THEN targetParam ELSE "auto",
              action |-> IF actionParam = "queue_only" THEN "queue_only"
                         ELSE "download_now",
              enqueueOptions |-> parseEnqueueOptions(params),
              source |-> normalizeExternalSource(Get(params, "source"))]

\* lines 160-169, of the searchParams
RequestOfParams(r, params) ==
    LET urlParam == Trim(Get(params, "url"))
    IN  IF Get(params, "v") # "1" THEN Rejected(161)
        ELSE IF urlParam = "" \/ ~isSafeUrl(urlParam) THEN Rejected(166)
        ELSE RequestFor(r, params, normalizeExternalVideoUrl(urlParam))

\* lines 152-160, of the parsed link
RequestOfParsed(r, parsed) ==
    IF ~parsed.ok THEN Rejected(153)
    ELSE IF Protocol(parsed) # "youwee:" \/ Hostname(parsed) # "download" THEN Rejected(157)
    ELSE RequestOfParams(r, SearchParams(parsed))

\* the ExternalLinkRequest parseExternalDeepLink returns, or Rejected(line) for
\* null; exit is the line of the return statement taken
parseExternalDeepLink(r) ==
    IF r = "" \/ ExceedsMaxLength(r) THEN Rejected(146)
    ELSE RequestOfParsed(r, ParseURL(r))

\* the route sniffed from the URL alone
resolveExternalRouteTargetSniffOnly(preferred, u) ==
    IF isYouTubeUrl(u) THEN "youtube" ELSE "universal"

resolveExternalRouteTarget(preferred, u) ==
    IF preferred = "youtube" \/ preferred = "universal" THEN preferred
    ELSE IF isYouTubeUrl(u) THEN "youtube" ELSE "universal"

\* s repeated n times
RECURSIVE Repeat(_, _)
Repeat(s, n) ==
    IF n = 0 THEN ""
    ELSE LET half == Repeat(s, n \div 2)
         IN  half \o half \o (IF n % 2 = 1 THEN s ELSE "")

\* a link with a valid target, padded to the given length
PaddedLink(n) ==
    LET base == "youwee://download?v=1&url=https://example.com/"
    IN  base \o Repeat("x", n - Len(base))

\* The deep links the operating system hands over: a beginning (up to `url=`),
\* then the scheme, the host and the rest of the target URL.
LinkSeeds ==
    {"", "youwee://download?v=1&url=", "youwee://download?url=",
     "youwee://download?v=2&v=1&url=", "youwee://download?v=%31&url=",
     "youwee://download?V=1&url=", "YOUWEE://download?v=1&url=",
     "youwee://Download?v=1&url=", "youwee://downloads?v=1&url=",
     "youwee:download?v=1&url=", "https://download?v=1&url=", "download?v=1&url=",
     "youwee://download?v=1&target=universal&url=",
     PaddedLink(MAX_EXTERNAL_DEEPLINK_LENGTH), PaddedLink(MAX_EXTERNAL_DEEPLINK_LENGTH + 1)}

\* The deep links of the browser extensions and of anyone else: version,
\* optional target, action, media, quality and source in recognized and
\* unrecognized spellings, and the url.
OptionLinks ==
    {"youwee://download?v=1" \o t \o a \o m \o q \o s \o "&url=" \o u :
        t \in {"", "&target=youtube", "&target=universal", "&target=YouTube",
               "&target=universal&target=youtube"},
        a \in {"", "&action=queue_only", "&action=QUEUE_ONLY"},
        m \in {"", "&media=audio", "&media=Audio"},
        q \in {"", "&quality=128", "&quality=720", "&quality=4K", "&quality=9000"},
        s \in {"", "&source=ext-chromium", "&source=%20EXT-Firefox%09", "&source=evil",
               "&source=ext-chromium-x"},
        u \in {"https://example.com/video.mp4",
               "https://youtube.com/watch?v=abc123%26list=PL1", "http://192.168.1.5/x"}}

UrlSchemeChunks == {"https://", "http://", "HTTP:", "ftp://", "javascript:"}

UrlHostChunks ==
    {"example.com", "youtube.com", "youtu.be", "192.168.1.5", "LocalHost", "0x7f.1",
     "[::1]", "[FD00::1]", "printer.local", "172.16.0.1", "172.32.0.1",
     "example.com@10.0.0.1", "169.254.169.254:80", "x"}

UrlTailChunks ==
    {"/video.mp4", "/watch?v=abc123", "/watch?v=abc123%26list=PL1%26index=2",
     "/playlist?list=PL1%26index=2", "#", "%0A"}

LinkChunks(typed) ==
    IF typed = 0 THEN UrlSchemeChunks
    ELSE IF typed = 1 THEN UrlHostChunks
    ELSE UrlTailChunks

TypeLink ==
    /\ ~linkCalled
    /\ linkTyped < MaxLinkChunks
    /\ \E c \in LinkChunks(linkTyped) : raw' = raw \o c
    /\ linkTyped' = linkTyped + 1
    /\ UNCHANGED <<linkCalled, request>>
    /\ UNCHANGED <<waitVars, hostVars, retryVars, clampVars, routeVars, normVars, errorVars>>

CallParseExternalDeepLink ==
    /\ ~linkCalled
    /\ linkCalled' = TRUE
    /\ request' = parseExternalDeepLink(raw)
    /\ UNCHANGED <<raw, linkTyped>>
    /\ UNCHANGED <<waitVars, hostVars, retryVars, clampVars, routeVars, normVars, errorVars>>

\* The URLs a route is resolved for: any string, a parsed link's url or not.
UrlSeeds == {"", "https://", "HTTPS://WWW.", "ftp://", "youtube.com", "foo://You", "https://m."}

UrlChunks ==
    {"youtube.com", "youtu.be", "music.youtube.com", "example.com", "tube.com", ".",
     "/watch?v=abc123", ":443", "@", "x"}

TypeUrl ==
    /\ ~routeCalled
    /\ urlTyped < MaxUrlChunks
    /\ \E c \in UrlChunks : url' = url \o c
    /\ urlTyped' = urlTyped + 1
    /\ UNCHANGED <<preferredTarget, routeCalled, route>>
    /\ UNCHANGED <<waitVars, hostVars, retryVars, clampVars, linkVars, normVars, errorVars>>

CallResolveExternalRouteTarget ==
    /\ ~routeCalled
    /\ routeCalled' = TRUE
    /\ route' = resolveExternalRouteTarget(preferredTarget, url)
    /\ UNCHANGED <<preferredTarget, url, urlTyped>>
    /\ UNCHANGED <<waitVars, hostVars, retryVars, clampVars, linkVars, normVars, errorVars>>

\* The URLs handed to normalizeExternalVideoUrl: any string, a URL or not.
VideoSeeds ==
    {"", "https://youtube.com", "https://www.youtube.com/watch?v=abc123",
     "https://youtu.be/abc123", "HTTPS://M.YouTube.com", "http://music.youtube.com:80",
     "https://example.com", "https://example.com/", "youtube.com", " https://notyoutube.com",
     "ftp://youtube.com"}

VideoChunks ==
    {"/watch?v=abc123", "/playlist", "?list=PL1&index=2", "&list=PL1&index=2",
     "&List=PL2", "?t=1 2", "&x=a+b%20c", "#list=PL1", "/a b", "?", ":99999"}

TypeVideoUrl ==
    /\ normCalls = 0
    /\ videoTyped < MaxVideoChunks
    /\ \E c \in VideoChunks : videoUrl' = videoUrl \o c
    /\ videoTyped' = videoTyped + 1
    /\ UNCHANGED <<normCalls, normalizedOnce, normalizedTwice>>
    /\ UNCHANGED <<waitVars, hostVars, retryVars, clampVars, linkVars, routeVars, errorVars>>

\* the call of line 169, and a caller normalizing the result once more
CallNormalizeExternalVideoUrl ==
    /\ normCalls < 2
    /\ normCalls' = normCalls + 1
    /\ IF normCalls = 0
       THEN /\ normalizedOnce' = normalizeExternalVideoUrl(videoUrl)
            /\ UNCHANGED normalizedTwice
       ELSE /\ normalizedTwice' = normalizeExternalVideoUrl(normalizedOnce)
            /\ UNCHANGED normalizedOnce
    /\ UNCHANGED <<videoUrl, videoTyped>>
    /\ UNCHANGED <<waitVars, hostVars, retryVars, clampVars, linkVars, routeVars, errorVars>>

(* Properties of parseExternalDeepLink and resolveExternalRouteTarget *)

\* the returns of lines 146, 153, 157 and 161: length, parse, scheme and host,
\* version
GateExits == {146, 153, 157, 161}

\* C1: the url of every returned request has scheme http or https and a host
\* isPrivateOrLocalHost rejects not; a link that passes the scheme, host and
\* version gate and whose normalized url parameter names a private or local
\* host or another scheme yields null.
C1_OnlyPublicHttp ==
    linkCalled =>
        /\ request.ok =>
              LET u == ParseURL(request.url)
              IN  /\ u.ok
                  /\ Protocol(u) \in {"http:", "https:"}
                  /\ ~isPrivateOrLocalHost(Hostname(u))
        /\ request.exit \notin GateExits =>
              LET given == Trim(Get(SearchParams(ParseURL(raw)), "url"))
                  u == ParseURL(normalizeExternalVideoUrl(given))
              IN  (u.ok /\ (Protocol(u) \notin {"http:", "https:"}
                              \/ isPrivateOrLocalHost(Hostname(u))))
                      => ~request.ok
        /\ raw = "youwee://download?v=1&url=http://192.168.1.5/video.mp4" => ~request.ok

\* a link to a public https URL has been accepted
C1_Witness ==
    /\ linkCalled
    /\ raw = "youwee://download?v=1&url=https://youtube.com/watch?v=abc123"
    /\ request.ok
    /\ request.url = "https://youtube.com/watch?v=abc123"

\* C2: an empty or over-long link, a link that does not parse, a link whose
\* scheme is not youwee: or whose host is not download, and a link whose v is
\* missing or not 1 are rejected, each at the first of these checks that
\* fails and before the url parameter is read; a link of exactly 4096
\* characters is not rejected for its length.
C2_GateRejects ==
    linkCalled =>
        /\ request.exit \in GateExits => ~request.ok
        /\ (raw = "" \/ Len(raw) > 4096) => request.exit = 146
        /\ (raw # "" /\ Len(raw) <= 4096) =>
              LET parsed == ParseURL(raw)
                  shaped == parsed.ok /\ parsed.scheme = "youwee" /\ parsed.host = "download"
              IN  /\ request.exit # 146
                  /\ ~parsed.ok => request.exit = 153
                  /\ (parsed.ok /\ ~shaped) => request.exit = 157
                  /\ (shaped /\ Get(SearchParams(parsed), "v") # "1") => request.exit = 161
                  /\ (shaped /\ Get(SearchParams(parsed), "v") = "1")
                        => request.exit \notin GateExits
        /\ raw = PaddedLink(4096) => request.exit \notin GateExits

\* a link of exactly 4096 characters has passed the length test and the gate
C2_Witness == linkCalled /\ Len(raw) = 4096 /\ request.exit \notin GateExits

RecognizedVideoHosts ==
    {"youtube.com", "www.youtube.com", "m.youtube.com", "music.youtube.com", "youtu.be"}

\* C10: a preferred target youtube or universal is returned as it is; for auto
\* the route is youtube exactly when the url parses and its host is a
\* recognized video host, universal otherwise; the route is never auto.
C10_RouteResolved ==
    routeCalled =>
        /\ route \in {"youtube", "universal"}
        /\ preferredTarget \in {"youtube", "universal"} => route = preferredTarget
        /\ preferredTarget = "auto" =>
              LET u == ParseURL(url)
              IN  route = IF u.ok /\ ToLowerCase(u.host) \in RecognizedVideoHosts
                          THEN "youtube" ELSE "universal"

\* a youtube URL has been routed to the preferred universal handler
C10_Witness ==
    /\ routeCalled
    /\ preferredTarget = "universal"
    /\ url = "https://youtube.com/watch?v=abc123"
    /\ route = "universal"

(* Properties of normalizeExternalVideoUrl *)

\* the url parameter of a deep link, as line 164 reads it
UrlParamOf(link) == Trim(Get(SearchParams(ParseURL(link)), "url"))

\* a parsed URL with the given parameters, on a recognized video host, that
\* carries a video identifier
SingleVideo(u, params) ==
    /\ u.ok
    /\ ToLowerCase(u.host) \in RecognizedVideoHosts
    /\ \/ ToLowerCase(u.host) = "youtu.be"
       \/ \E i \in 1..Len(params) : params[i].name = "v"

PlaylistParam(p) == p.name \in {"list", "index"}
OtherParam(p) == ~PlaylistParam(p)

\* the parameters kept of the returned url are those given, without list and
\* index exactly when the given url addresses a single video
KeptFrom(given, params, kept) ==
    /\ SingleVideo(given, params) =>
          /\ kept = SelectSeq(params, OtherParam)
          /\ SelectSeq(kept, PlaylistParam) = <<>>
    /\ ~SingleVideo(given, params) => kept = params

\* the returned url is the given one but for the parameters kept
NormalizedFrom(given, out) ==
    /\ out.ok
    /\ out.scheme = given.scheme /\ out.host = given.host /\ out.path = given.path
    /\ KeptFrom(given, SearchParams(given), SearchParams(out))

\* C11: the url of an accepted deep link has the parameters of the given url
\* parameter, in their order and with their values, without list and index
\* exactly when the given url has a recognized video host and carries a video
\* identifier (a v parameter, or the host youtu.be); a playlist URL of a
\* recognized host without a video identifier keeps list and index.
C11_StripsListAndIndex ==
    /\ (linkCalled /\ request.ok) =>
          NormalizedFrom(ParseURL(UrlParamOf(raw)), ParseURL(request.url))
    /\ (linkCalled
          /\ raw = "youwee://download?v=1&url=https://youtube.com/playlist?list=PL1%26index=2")
          => request.url = "https://youtube.com/playlist?list=PL1&index=2"

\* a link to a single video with list and index has been accepted without them
C11_Witness ==
    /\ linkCalled
    /\ raw = "youwee://download?v=1&url=https://youtube.com/watch?v=abc123%26list=PL1%26index=2"
    /\ request.ok
    /\ request.url = "https://youtube.com/watch?v=abc123"

\* the host of the parsed URL is none of the recognized video hosts
OtherHost(u) == u.ok /\ ToLowerCase(u.host) \notin RecognizedVideoHosts

\* out is the serialization of the parsed URL and denotes that same URL
SerializationOf(parsed, out) ==
    /\ out = SerializeURL(parsed)
    /\ ParseURL(out) = parsed

\* C12 as stated: normalizeExternalVideoUrl returns its input string unchanged
\* for every URL whose host is not a recognized video host and for every
\* input that fails URL parsing.
C12_Original ==
    (normCalls >= 1 /\ (~ParseURL(videoUrl).ok \/ OtherHost(ParseURL(videoUrl))))
        => normalizedOnce = videoUrl

\* the result out of normalizing u, which parses as parsed, when u fails URL
\* parsing or has another host
PassedThrough(u, parsed, out) ==
    /\ ~parsed.ok => out = u
    /\ OtherHost(parsed) =>
          /\ SerializationOf(parsed, out)
          /\ ParseURL(out).query = parsed.query
          /\ u = SerializeURL(parsed) => out = u

\* C12, amended: an input that fails URL parsing is returned unchanged; a URL
\* whose host is not a recognized video host is returned as the serialization
\* of the parsed URL, which denotes the same URL with its query untouched and
\* is the input itself when the input is already in serialized form.
C12_PassThrough ==
    normCalls >= 1 => PassedThrough(videoUrl, ParseURL(videoUrl), normalizedOnce)

\* a URL of another host with v, list and index has been returned as it is
C12_Witness ==
    /\ normCalls >= 1
    /\ videoUrl = "https://example.com/watch?v=abc123&list=PL1&index=2"
    /\ normalizedOnce = videoUrl

\* C13: normalizing the result of a normalization returns it unchanged.
C13_Idempotent == normCalls = 2 => normalizedTwice = normalizedOnce

\* a single-video URL has lost list and index at the first call and stayed
\* the same at the second
C13_Witness ==
    /\ normCalls = 2
    /\ videoUrl = "https://www.youtube.com/watch?v=abc123&list=PL1&index=2"
    /\ normalizedOnce = "https://www.youtube.com/watch?v=abc123"
    /\ normalizedTwice = normalizedOnce

(* Properties of the options of a deep link *)

\* the deep link with the version and the url of the given one and no other
\* parameter
BareLinkOf(params) ==
    "youwee://download?v=" \o FormEncode(Get(params, "v"))
        \o "&url=" \o FormEncode(Get(params, "url"))

BareLink(link) == BareLinkOf(SearchParams(ParseURL(link)))

\* the two requests are both null, or both returned with the same url
SameVerdict(r1, r2) == r1.ok = r2.ok /\ r1.url = r2.url

ParamOf(link, name) == Get(SearchParams(ParseURL(link)), name)

\* the enqueue options o are those the media and quality parameters select
OptionsFor(o, media, quality) ==
    /\ o.mediaType \in {"audio", "video"}
    /\ o.mediaType = "audio" <=> media = "audio"
    /\ o.mediaType = "audio" =>
          /\ o.quality = "audio"
          /\ o.audioBitrate \in {"128", "auto"}
          /\ o.audioBitrate = "128" <=> quality = "128"
    /\ o.mediaType = "video" =>
          /\ o.audioBitrate = Absent
          /\ o.quality \in {"best", "8k", "4k", "2k", "1080", "720", "480", "360"}
          /\ o.quality # "best" => o.quality = quality
          /\ quality \in {"best", "8k", "4k", "2k", "1080", "720", "480", "360"}
                => o.quality = quality

\* C16: the enqueueOptions of an accepted link are the audio variant exactly
\* when media is audio, with quality audio and the bitrate 128 exactly when
\* quality is 128, auto otherwise; else the video variant without bitrate,
\* whose quality is the quality parameter if that is one of best, 8k, 4k, 2k,
\* 1080, 720, 480, 360 and best otherwise.
C16_EnqueueOptions ==
    (linkCalled /\ request.ok) =>
        OptionsFor(request.enqueueOptions, ParamOf(raw, "media"), ParamOf(raw, "quality"))

\* an audio link with quality 128 has been accepted with the bitrate 128
C16_Witness ==
    /\ linkCalled
    /\ raw = "youwee://download?v=1&media=audio&quality=128&url=https://example.com/video.mp4"
    /\ request.ok
    /\ request.enqueueOptions =
          [mediaType |-> "audio", quality |-> "audio", audioBitrate |-> "128"]

\* C17: the source of an accepted link is the source parameter, trimmed and in
\* lower case, if that is ext-chromium or ext-firefox, and null otherwise;
\* every source that is not null satisfies isTrustedExternalSource.
C17_SourceAllowListed ==
    (linkCalled /\ request.ok) =>
        /\ request.source \in {Null, "ext-chromium", "ext-firefox"}
        /\ request.source # Null => isTrustedExternalSource(request.source)
        /\ request.source =
              IF ToLowerCase(Trim(ParamOf(raw, "source"))) \in {"ext-chromium", "ext-firefox"}
              THEN ToLowerCase(Trim(ParamOf(raw, "source"))) ELSE Null

\* a source written in upper case between white space has been kept in lower
\* case
C17_Witness ==
    /\ linkCalled
    /\ raw = "youwee://download?v=1&source=%20EXT-Firefox%09&url=https://example.com/video.mp4"
    /\ request.ok
    /\ request.source = "ext-firefox"

\* C18: the target of an accepted link is the target parameter if that is
\* youtube or universal and auto otherwise; its action is queue_only if the
\* action parameter is queue_only and download_now otherwise; a link with
\* nothing but v=1 and a valid url has target auto, action download_now,
\* mediaType video and quality best.
C18_TargetAndAction ==
    (linkCalled /\ request.ok) =>
        /\ request.target =
              IF ParamOf(raw, "target") \in {"youtube", "universal"}
              THEN ParamOf(raw, "target") ELSE "auto"
        /\ request.action = "queue_only" <=> ParamOf(raw, "action") = "queue_only"
        /\ request.action \in {"queue_only", "download_now"}
        /\ raw = "youwee://download?v=1&url=https://example.com/video.mp4" =>
              /\ request.target = "auto" /\ request.action = "download_now"
              /\ request.enqueueOptions.mediaType = "video"
              /\ request.enqueueOptions.quality = "best"

\* a link with nothing but v=1 and a valid url has been accepted with the
\* defaults
C18_Witness ==
    /\ linkCalled
    /\ raw = "youwee://download?v=1&url=https://example.com/video.mp4"
    /\ request.ok
    /\ request.target = "auto"
    /\ request.action = "download_now"

-----------------------------------------------------------------------------
(* Specifications *)

\* The state before the first call: the inputs of the operation under study are
\* drawn from its seeds, the state of the other operations is at rest.
Start(op) ==
    /\ pc = [w \in Waits |-> "idle"]
    /\ ms = [w \in Waits |-> 0]
    /\ remaining = [w \in Waits |-> 0]
    /\ cancelled = [w \in Waits |-> FALSE]
    /\ ticks = [w \in Waits |-> <<>>]
    /\ sleeps = [w \in Waits |-> 0]
    /\ polls = [w \in Waits |-> 0]
    /\ result = [w \in Waits |-> FALSE]
    /\ ticksAtCancel = [w \in Waits |-> -1]
    /\ sleepsAtCancel = [w \in Waits |-> -1]
    /\ hostname \in (IF op = "host" THEN HostSeeds ELSE {""})
    /\ hostTyped = 0
    /\ hostCalled = FALSE
    /\ hostResult = FALSE
    /\ message \in (IF op = "retry" THEN MessageSeeds ELSE {""})
    /\ msgTyped = 0
    /\ retryCalled = FALSE
    /\ retryable = FALSE
    /\ nonRetryable = FALSE
    /\ value \in (IF op = "clamp" THEN ClampInputs ELSE {Undefined})
    /\ clampCalled = FALSE
    /\ attempts = Undefined
    /\ delay = Undefined
    /\ raw \in (IF op = "link" THEN LinkSeeds ELSE IF op = "options" THEN OptionLinks ELSE {""})
    /\ linkTyped = 0
    /\ linkCalled = FALSE
    /\ request = Rejected(0)
    /\ preferredTarget \in (IF op = "route" THEN {"auto", "youtube", "universal"} ELSE {"auto"})
    /\ url \in (IF op = "route" THEN UrlSeeds ELSE {""})
    /\ urlTyped = 0
    /\ routeCalled = FALSE
    /\ route = ""
    /\ error \in (IF op = "error" THEN ErrorValues ELSE {v \in ErrorValues : v.typeof = "undefined"})
    /\ errorCalled = FALSE
    /\ outcome = Returns("")
    /\ videoUrl \in (IF op = "normalize" THEN VideoSeeds ELSE {""})
    /\ videoTyped = 0
    /\ normCalls = 0
    /\ normalizedOnce = ""
    /\ normalizedTwice = ""

\* waitWithCancellation called by NumWaits tasks, each with a flag of its own
Init == Start("wait")
Next == \E w \in Waits : Call(w) \/ Wake(w) \/ Cancel(w)
Spec == Init /\ [][Next]_vars

\* isPrivateOrLocalHost applied to composed hostnames
SpecHost == Start("host") /\ [][TypeHost \/ CallIsPrivateOrLocalHost]_vars

\* the two error classifiers applied to composed messages
SpecRetry == Start("retry") /\ [][TypeMessage \/ CallClassify]_vars

\* the two clamps applied to a configured number
SpecClamp == Start("clamp") /\ [][CallClamp]_vars

\* parseExternalDeepLink applied to composed deep links
SpecLink == Start("link") /\ [][TypeLink \/ CallParseExternalDeepLink]_vars

\* resolveExternalRouteTarget applied to a preferred target and a composed URL
SpecOptions == Start("options") /\ [][CallParseExternalDeepLink]_vars
SpecRoute == Start("route") /\ [][TypeUrl \/ CallResolveExternalRouteTarget]_vars
SpecError == Start("error") /\ [][CallNormalizeErrorMessage]_vars
SpecNormalize == Start("normalize") /\ [][TypeVideoUrl \/ CallNormalizeExternalVideoUrl]_vars

====
